---- MODULE Spec2Model ----
(***************************************************************************)
(* A model of gliderpy/fetchers.py: the column normaliser standardise_df,  *)
(* the GliderDataFetcher (query, to_pandas) and DatasetList (get_ids).     *)
(*                                                                         *)
(* Python strings are sequences of one-character strings, so that          *)
(* str.lower, str.endswith and str.split are computed, not assumed.        *)
(* An Optional value is a sequence of length 0 (None) or 1 (Some(x)).      *)
(***************************************************************************)
EXTENDS Integers, Sequences, FiniteSets, TLC

VARIABLES
    dataset_id,   \* GliderDataFetcher.fetcher.dataset_id : Optional[str]
    datasets,     \* GliderDataFetcher.datasets : Optional[catalog]
    constraints,  \* GliderDataFetcher.fetcher.constraints : Optional[dict]
    query_url,    \* GliderDataFetcher.query_url : Optional[search request]
    last,         \* outcome of the last call on the fetcher
    e_server,     \* DatasetList.e.server
    e_dataset_id, \* DatasetList.e.dataset_id : Optional[str]
    dataset_ids,  \* DatasetList.dataset_ids : Optional[list]
    lret,         \* outcome of the last get_ids() call
    ndf,          \* the table handed to standardise_df
    nurl,         \* the url handed to standardise_df
    nprev,        \* the table before the last standardise_df application
    napplied      \* how many times standardise_df was applied to ndf

fvars == <<dataset_id, datasets, constraints, query_url, last>>
lvars == <<e_server, e_dataset_id, dataset_ids, lret>>
nvars == <<ndf, nurl, nprev, napplied>>
vars == <<dataset_id, datasets, constraints, query_url, last,
          e_server, e_dataset_id, dataset_ids, lret,
          ndf, nurl, nprev, napplied>>

(***************************************************************************)
(* Bounds of the model.                                                    *)
(***************************************************************************)
\* longest catalog-search response (rows)
MaxCat == 2
\* most rows one dataset's table holds
MaxRows == 2
\* most columns of a table handed to the normaliser on its own
MaxCols == 2
\* most rows of a table handed to the normaliser on its own
MaxNormRows == 1
\* most other ids the allDatasets catalog lists besides "allDatasets"
MaxListed == 3
\* applications of standardise_df to one table
MaxApply == 2

(***************************************************************************)
(* Optional values and strings.                                            *)
(***************************************************************************)
None == <<>>
Some(x) == <<x>>
IsNone(o) == o = <<>>
Val(o) == o[1]

EmptyStr == <<>>

\* Python truthiness of an Optional[str]: None and "" are falsy.
Truthy(o) == ~IsNone(o) /\ Val(o) /= EmptyStr

Range(s) == {s[i] : i \in 1..Len(s)}

UpperAlpha == <<"A","B","C","D","E","F","G","H","I","J","K","L","M",
                "N","O","P","Q","R","S","T","U","V","W","X","Y","Z">>
LowerAlpha == <<"a","b","c","d","e","f","g","h","i","j","k","l","m",
                "n","o","p","q","r","s","t","u","v","w","x","y","z">>

LowerChar(c) ==
    IF \E i \in 1..Len(UpperAlpha) : UpperAlpha[i] = c
    THEN LowerAlpha[CHOOSE i \in 1..Len(UpperAlpha) : UpperAlpha[i] = c]
    ELSE c

SwapChar(c) ==
    IF \E i \in 1..Len(UpperAlpha) : UpperAlpha[i] = c
    THEN LowerAlpha[CHOOSE i \in 1..Len(UpperAlpha) : UpperAlpha[i] = c]
    ELSE IF \E i \in 1..Len(LowerAlpha) : LowerAlpha[i] = c
         THEN UpperAlpha[CHOOSE i \in 1..Len(LowerAlpha) : LowerAlpha[i] = c]
         ELSE c

\* str.swapcase instead of str.lower
StrSwapCase(s) == [i \in 1..Len(s) |-> SwapChar(s[i])]

\* str.lower
StrLower(s) == [i \in 1..Len(s) |-> LowerChar(s[i])]

\* str.startswith taken for str.endswith
StartsWith(s, suffix) ==
    /\ Len(s) >= Len(suffix)
    /\ SubSeq(s, 1, Len(suffix)) = suffix

\* str.endswith
EndsWith(s, suffix) ==
    /\ Len(s) >= Len(suffix)
    /\ SubSeq(s, Len(s) - Len(suffix) + 1, Len(s)) = suffix

\* the whole url kept, query part included
KeepQuery(url) == url

\* url.split("?")[0]: everything before the first "?"
StripQuery(url) ==
    IF \E i \in 1..Len(url) : url[i] = "?"
    THEN LET k == CHOOSE i \in 1..Len(url) :
                    /\ url[i] = "?"
                    /\ \A j \in 1..(i - 1) : url[j] /= "?"
         IN  SubSeq(url, 1, k - 1)
    ELSE url

(***************************************************************************)
(* ERDDAP servers and the urls the client builds.                          *)
(***************************************************************************)
DefaultServer == <<"https://gliders.ioos.us/erddap">>
OtherServer == <<"https://example.org/erddap">>
Servers == {DefaultServer, OtherServer}

\* ERDDAP.get_download_url(): server/tabledap/<id>.html?<variables>&<constraints>
GetDownloadUrl(server, id, cons) ==
    server \o <<"/", "tabledap", "/">> \o id \o <<".", "html", "?", "variables">>
           \o (IF IsNone(cons) THEN <<>> ELSE <<"&", "constraints">>)

\* ERDDAP.get_info_url(dataset_id, response="html")
GetInfoUrl(server, id) ==
    server \o <<"/", "info", "/">> \o id \o <<"/", "index", ".", "html">>

(***************************************************************************)
(* Tables.  A table has column names, an index label, and rows; a row      *)
(* remembers the dataset it was served from, its position in that          *)
(* dataset's table, and the value of its dataset_url cell (None while the  *)
(* table has no such column).                                              *)
(***************************************************************************)
DatasetUrlCol == <<"d","a","t","a","s","e","t","_","u","r","l">>
TimeLabel == <<"t","i","m","e">>
RawTimeLabel == <<"t","i","m","e"," ","(","U","T","C",")">>

\* raw column names as the server sends them, and their canonical forms
RawTemperature == <<"T"," ","(","C",")">>
LowTemperature == <<"t"," ","(","c",")">>
Temperature == <<"t">>
RawPressure == <<"p"," ","(","D",")">>
LowPressure == <<"p"," ","(","d",")">>
Pressure == <<"p">>

\* gliderpy.servers.server_parameter_rename: server names to canonical names
server_parameter_rename ==
    (LowTemperature :> Temperature) @@ (LowPressure :> Pressure)

\* DataFrame.rename(columns=mapping): one lookup per column, unmatched kept
Rename(mapping, name) ==
    IF name \in DOMAIN mapping THEN mapping[name] ELSE name

\* standardise_df with str.swapcase in place of str.lower
standardise_df_swapcase(df, dataset_url) ==
    LET lowered == [i \in 1..Len(df.columns) |-> StrSwapCase(df.columns[i])]
        renamed == [i \in 1..Len(lowered) |->
                        Rename(server_parameter_rename, lowered[i])]
        withUrl == IF DatasetUrlCol \in Range(renamed)
                   THEN renamed
                   ELSE Append(renamed, DatasetUrlCol)
    IN  [columns |-> withUrl,
         index_name |-> TimeLabel,
         rows |-> [i \in 1..Len(df.rows) |->
                      [df.rows[i] EXCEPT !.dataset_url = Some(dataset_url)]]]

\* standardise_df(df, dataset_url)
standardise_df(df, dataset_url) ==
    LET lowered == [i \in 1..Len(df.columns) |-> StrLower(df.columns[i])]
        renamed == [i \in 1..Len(lowered) |->
                        Rename(server_parameter_rename, lowered[i])]
        withUrl == IF DatasetUrlCol \in Range(renamed)
                   THEN renamed
                   ELSE Append(renamed, DatasetUrlCol)
    IN  [columns |-> withUrl,
         index_name |-> TimeLabel,
         rows |-> [i \in 1..Len(df.rows) |->
                      [df.rows[i] EXCEPT !.dataset_url = Some(dataset_url)]]]

(***************************************************************************)
(* The catalog search and the tabledap server, as seen by the fetcher.     *)
(***************************************************************************)
DelayedSuffix == <<"d","e","l","a","y","e","d">>

\* dataset ids a catalog search may list
IdPlain == <<"r","1">>
IdDelayed == <<"r","1","-","d","e","l","a","y","e","d">>
IdMid == <<"d","e","l","a","y","e","d","2">>
SearchIds == {IdPlain, IdDelayed, IdMid}

\* ids a caller may assign to fetcher.dataset_id
CallerIds == {IdPlain, IdDelayed, EmptyStr}

\* bounding boxes and time ranges handed to query()
Bounds ==
    { [min_lat |-> 30, max_lat |-> 35, min_lon |-> -75, max_lon |-> -70,
       min_time |-> "2020-01-01", max_time |-> "2020-02-01"],
      [min_lat |-> 10, max_lat |-> 20, min_lon |-> -60, max_lon |-> -50,
       min_time |-> "2021-01-01", max_time |-> "2021-02-01"] }

\* the constraints dict query() stores on the fetcher
MakeConstraints(b) ==
    [time_ge |-> b.min_time, time_le |-> b.max_time,
     latitude_ge |-> b.min_lat, latitude_le |-> b.max_lat,
     longitude_ge |-> b.min_lon, longitude_le |-> b.max_lon]

\* ERDDAP.get_search_url(search_for="glider", response="csv", bounds...)
GetSearchUrl(server, b) ==
    [server |-> server, search_for |-> "glider", response |-> "csv",
     min_lat |-> b.min_lat, max_lat |-> b.max_lat,
     min_lon |-> b.min_lon, max_lon |-> b.max_lon,
     min_time |-> b.min_time, max_time |-> b.max_time]

\* one row of the csv the search answers with
CsvRow(id) ==
    [Title |-> "title", Institution |-> "institution", Dataset_ID |-> id,
     Summary |-> "summary"]

\* pd.read_csv(data)[["Title", "Institution", "Dataset ID"]]
ReadCsv(ids) ==
    [columns |-> <<"Title", "Institution", "Dataset ID">>,
     rows |-> [i \in 1..Len(ids) |->
                  [Title |-> CsvRow(ids[i]).Title,
                   Institution |-> CsvRow(ids[i]).Institution,
                   Dataset_ID |-> CsvRow(ids[i]).Dataset_ID,
                   info_url |-> None]]]

CatalogIds(cat) == [i \in 1..Len(cat.rows) |-> cat.rows[i].Dataset_ID]

\* the filter testing the start of the id
FilterDelayedPrefix(cat) ==
    [cat EXCEPT !.rows =
        SelectSeq(cat.rows, LAMBDA r : ~StartsWith(r.Dataset_ID, DelayedSuffix))]

\* df.loc[~df["Dataset ID"].str.endswith("delayed")]
FilterDelayed(cat) ==
    [cat EXCEPT !.rows =
        SelectSeq(cat.rows, LAMBDA r : ~EndsWith(r.Dataset_ID, DelayedSuffix))]

\* df["info_url"] = [get_info_url(dataset_id=id, response="html") for id in ...]
AttachInfoUrls(server, cat) ==
    [columns |-> Append(cat.columns, "info_url"),
     rows |-> [i \in 1..Len(cat.rows) |->
                  [cat.rows[i] EXCEPT
                      !.info_url = Some(GetInfoUrl(server, cat.rows[i].Dataset_ID))]]]

\* the outcome record of a call
Outcome(op, status, branch, value, fetched, searches, arg, named) ==
    [op |-> op, status |-> status, branch |-> branch, value |-> value,
     fetched |-> fetched, searches |-> searches, arg |-> arg, named |-> named]

NoCall == Outcome("init", "none", "none", None, <<>>, 0, <<>>, None)

\* the except branch swallowing the error and returning None
SearchFailedSwallowed(st, arg) ==
    [st EXCEPT
        !.last = Outcome("query", "ok", "none", None, <<>>, 1, arg, None)]

\* except httpx.HTTPError: raise Exception(f"... {self.fetcher.constraints}")
SearchFailed(st, arg) ==
    [st EXCEPT
        !.last = Outcome("query", "Exception", "none", None, <<>>, 1, arg,
                         Some(Val(st.constraints)))]

\* GliderDataFetcher.query(min_lat, ..., max_time, delayed): st is the fetcher
\* before the call; the catalog search, if issued, raises an HTTP error
\* (resp = None) or answers with the ids Val(resp)
query(st, b, delayed, resp) ==
    LET arg == [bounds |-> b, delayed |-> delayed, resp |-> resp]
        st1 == [st EXCEPT !.constraints = Some(MakeConstraints(b))]
    IN  IF IsNone(st1.datasets)
        THEN LET st2 == [st1 EXCEPT
                            !.query_url = Some(GetSearchUrl(DefaultServer, b))]
             IN  IF IsNone(resp)
                 THEN SearchFailed(st2, arg)
                 ELSE LET df == ReadCsv(Val(resp))
                          cat == IF ~delayed
                                 THEN AttachInfoUrls(DefaultServer, FilterDelayed(df))
                                 ELSE df
                      IN  [st2 EXCEPT
                              !.datasets = Some(cat),
                              !.last = Outcome("query", "ok", "none", Some(cat),
                                               <<>>, 1, arg, None)]
        \* `not self.datasets` on a DataFrame: its truth value is ambiguous
        ELSE [st1 EXCEPT
                 !.last = Outcome("query", "ValueError", "none", None,
                                  <<>>, 0, arg, None)]

(***************************************************************************)
(* GliderDataFetcher.to_pandas.                                            *)
(***************************************************************************)
\* columns of the csv a tabledap request answers with
ServerColumns == <<RawTemperature, RawPressure>>

\* fetcher.to_pandas(index_col="time (UTC)", parse_dates=True) for dataset id,
\* the server answering with n rows
FetchTable(id, n) ==
    [columns |-> ServerColumns,
     index_name |-> RawTimeLabel,
     rows |-> [k \in 1..n |-> [src |-> id, pos |-> k, dataset_url |-> None]]]

RECURSIVE FlattenRows(_)
FlattenRows(dfs) ==
    IF dfs = <<>> THEN <<>> ELSE Head(dfs).rows \o FlattenRows(Tail(dfs))

RECURSIVE UnionColumns(_, _)
UnionColumns(dfs, acc) ==
    IF dfs = <<>>
    THEN acc
    ELSE UnionColumns(Tail(dfs),
             acc \o SelectSeq(Head(dfs).columns, LAMBDA c : c \notin Range(acc)))

\* pd.concat(df_all), for a non-empty df_all
PdConcat(dfs) ==
    [columns |-> UnionColumns(dfs, <<>>),
     index_name |-> dfs[1].index_name,
     rows |-> FlattenRows(dfs)]

\* the catalog taking precedence over a set dataset id
BranchCatalogFirst(st) ==
    IF ~IsNone(st.datasets) THEN "multi"
    ELSE IF Truthy(st.dataset_id) THEN "single"
    ELSE "error"

\* the dataset id tested with `is not None` instead of its truth value
BranchIsNotNone(st) ==
    IF ~IsNone(st.dataset_id) THEN "single"
    ELSE IF ~IsNone(st.datasets) THEN "multi"
    ELSE "error"

\* the if / elif / else of to_pandas
Branch(st) ==
    IF Truthy(st.dataset_id) THEN "single"
    ELSE IF ~Truthy(st.dataset_id) /\ ~IsNone(st.datasets) THEN "multi"
    ELSE "error"

\* the download url, query part stripped, of the fetcher's active dataset
DatasetUrl(st) ==
    StripQuery(GetDownloadUrl(DefaultServer, Val(st.dataset_id), st.constraints))

\* the for loop of to_pandas from position i on: acc holds the fetcher, the
\* tables collected (df_all), the fetches issued and whether one raised
RECURSIVE FetchLoop(_, _, _, _, _)
FetchLoop(ids, i, nrows, fail_at, acc) ==
    IF i > Len(ids)
    THEN acc
    ELSE LET st1 == [acc.st EXCEPT !.dataset_id = Some(ids[i])]
             fetching == Val(st1.dataset_id)
             acc1 == [acc EXCEPT
                         !.st = st1,
                         !.fetched = Append(@, [id |-> fetching,
                                                n |-> IF fail_at = i THEN 0
                                                      ELSE nrows[i]])]
         IN  IF fail_at = i
             THEN [acc1 EXCEPT !.failed = TRUE]
             ELSE FetchLoop(ids, i + 1, nrows, fail_at,
                      [acc1 EXCEPT !.df_all =
                          Append(@, standardise_df(FetchTable(fetching, nrows[i]),
                                                   DatasetUrl(st1)))])

\* GliderDataFetcher.to_pandas(): nrows[i] is the number of rows the server
\* answers the i-th fetch of the call with, fail_at the fetch that raises
\* (0: none does)
to_pandas(st, nrows, fail_at) ==
    LET br == Branch(st)
    IN  IF br = "single"
        THEN LET fetched == <<[id |-> Val(st.dataset_id),
                               n |-> IF fail_at = 1 THEN 0 ELSE nrows[1]]>>
             IN  IF fail_at = 1
                 THEN [st EXCEPT !.last =
                          Outcome("to_pandas", "FetchError", br, None, fetched,
                                  0, <<>>, None)]
                 ELSE [st EXCEPT !.last =
                          Outcome("to_pandas", "ok", br,
                                  Some(standardise_df(
                                      FetchTable(Val(st.dataset_id), nrows[1]),
                                      DatasetUrl(st))),
                                  fetched, 0, <<>>, None)]
        ELSE IF br = "multi"
        THEN LET r == FetchLoop(CatalogIds(Val(st.datasets)), 1, nrows, fail_at,
                                [st |-> st, df_all |-> <<>>, fetched |-> <<>>,
                                 failed |-> FALSE])
             IN  IF r.failed
                 THEN [r.st EXCEPT !.last =
                          Outcome("to_pandas", "FetchError", br, None, r.fetched,
                                  0, <<>>, None)]
                 ELSE IF r.df_all = <<>>
                 \* pd.concat([]): "No objects to concatenate"
                 THEN [r.st EXCEPT !.last =
                          Outcome("to_pandas", "ValueError", br, None, r.fetched,
                                  0, <<>>, None)]
                 ELSE [r.st EXCEPT !.last =
                          Outcome("to_pandas", "ok", br, Some(PdConcat(r.df_all)),
                                  r.fetched, 0, <<>>, None)]
        ELSE [st EXCEPT !.last =
                 Outcome("to_pandas", "ValueError", br, None, <<>>, 0, <<>>, None)]

(***************************************************************************)
(* The fetcher as a state machine.                                         *)
(***************************************************************************)
Fetcher ==
    [dataset_id |-> dataset_id, datasets |-> datasets,
     constraints |-> constraints, query_url |-> query_url, last |-> last]

Become(st) ==
    /\ dataset_id' = st.dataset_id
    /\ datasets' = st.datasets
    /\ constraints' = st.constraints
    /\ query_url' = st.query_url
    /\ last' = st.last

SearchResponses == UNION {[1..n -> SearchIds] : n \in 0..MaxCat}

\* GliderDataFetcher.__init__
FetcherInit ==
    /\ dataset_id = None
    /\ datasets = None
    /\ constraints = None
    /\ query_url = None
    /\ last = NoCall

\* the search answers only when query() issues it
Query ==
    \E b \in Bounds, delayed \in BOOLEAN,
       resp \in IF IsNone(datasets)
                THEN {None} \cup {Some(ids) : ids \in SearchResponses}
                ELSE {None} :
        /\ Become(query(Fetcher, b, delayed, resp))
        /\ UNCHANGED <<lvars, nvars>>

\* one row count per fetch the call can issue
ToPandas ==
    \E nrows \in [1..MaxCat -> 1..MaxRows], fail_at \in 0..MaxCat :
        /\ Become(to_pandas(Fetcher, nrows, fail_at))
        /\ UNCHANGED <<lvars, nvars>>

\* the caller assigning fetcher.dataset_id
SetDatasetId ==
    \E v \in {None} \cup {Some(id) : id \in CallerIds} :
        /\ dataset_id' = v
        /\ last' = Outcome("set_dataset_id", "ok", "none", None, <<>>, 0, <<>>, None)
        /\ UNCHANGED <<datasets, constraints, query_url, lvars, nvars>>

(***************************************************************************)
(* DatasetList.get_ids.                                                    *)
(***************************************************************************)
AllDatasets == <<"allDatasets">>

\* ids of the datasets the server lists
IdOther == <<"u","7">>
ListedIds == SearchIds \cup {IdOther}

\* what to_pandas()["datasetID"].to_list() can answer: the allDatasets table
\* lists every dataset of the server once, itself included
Listings ==
    {s \in UNION {[1..n -> ListedIds \cup {AllDatasets}] : n \in 1..(MaxListed + 1)} :
        /\ \A i, j \in 1..Len(s) : s[i] = s[j] => i = j
        /\ AllDatasets \in Range(s)}

\* list.pop(): the last element dropped, whatever it is
ListPop(list, x) == Some(SubSeq(list, 1, Len(list) - 1))

\* list.remove(x): the first x dropped; None stands for its ValueError
ListRemove(list, x) ==
    IF x \in Range(list)
    THEN LET k == CHOOSE i \in 1..Len(list) :
                    /\ list[i] = x
                    /\ \A j \in 1..(i - 1) : list[j] /= x
         IN  Some(SubSeq(list, 1, k - 1) \o SubSeq(list, k + 1, Len(list)))
    ELSE None

ListOutcome(op, status, value, fetches, arg) ==
    [op |-> op, status |-> status, value |-> value, fetches |-> fetches, arg |-> arg]

\* DatasetList.get_ids(): l is the object before the call, listing what the
\* allDatasets request answers with
get_ids(l, listing) ==
    IF l.e_server = DefaultServer
    THEN LET l1 == [l EXCEPT !.e_dataset_id = Some(AllDatasets)]
             removed == ListRemove(listing, AllDatasets)
         IN  IF IsNone(removed)
             THEN [l1 EXCEPT !.lret =
                      ListOutcome("get_ids", "ValueError", None, 1, listing)]
             ELSE [l1 EXCEPT
                      !.dataset_ids = Some(Val(removed)),
                      !.lret = ListOutcome("get_ids", "ok", Some(Val(removed)),
                                           1, listing)]
    ELSE [l EXCEPT !.lret = ListOutcome("get_ids", "ValueError", None, 0, listing)]

\* DatasetList.__init__(server)
ListInit ==
    /\ e_server \in Servers
    /\ e_dataset_id = None
    /\ dataset_ids = None
    /\ lret = ListOutcome("init", "none", None, 0, <<>>)

ListIdle ==
    /\ e_server = DefaultServer
    /\ e_dataset_id = None
    /\ dataset_ids = None
    /\ lret = ListOutcome("init", "none", None, 0, <<>>)

GetIds ==
    \E listing \in Listings :
        LET l == get_ids([e_server |-> e_server, e_dataset_id |-> e_dataset_id,
                          dataset_ids |-> dataset_ids, lret |-> lret], listing)
        IN  /\ e_server' = l.e_server
            /\ e_dataset_id' = l.e_dataset_id
            /\ dataset_ids' = l.dataset_ids
            /\ lret' = l.lret
            /\ UNCHANGED <<fvars, nvars>>

(***************************************************************************)
(* standardise_df on its own, applied to a table and again to its output.  *)
(***************************************************************************)
UpperDatasetUrlCol == <<"D","a","t","a","s","e","t","_","U","R","L">>

ColumnPool ==
    {RawTemperature, LowTemperature, Temperature, RawPressure,
     DatasetUrlCol, UpperDatasetUrlCol}

UrlA == DefaultServer \o <<"/", "tabledap", "/">> \o IdPlain \o <<".", "html">>
UrlB == DefaultServer \o <<"/", "tabledap", "/">> \o IdMid \o <<".", "html">>

\* a table as a caller may hand it over: a dataset_url cell has a value only
\* when a column of that name (in any case) exists
InputTable(cols, idx, n) ==
    [columns |-> cols,
     index_name |-> idx,
     rows |-> [k \in 1..n |->
                  [src |-> IdPlain, pos |-> k,
                   dataset_url |->
                       IF \E i \in 1..Len(cols) : StrLower(cols[i]) = DatasetUrlCol
                       THEN Some(UrlB)
                       ELSE None]]]

InputTables ==
    {InputTable(cols, idx, n) :
        cols \in UNION {[1..m -> ColumnPool] : m \in 0..MaxCols},
        idx \in {RawTimeLabel, TimeLabel},
        n \in 0..MaxNormRows}

NormInit ==
    /\ ndf \in InputTables
    /\ nurl \in {UrlA, UrlB}
    /\ nprev = None
    /\ napplied = 0

NormIdle ==
    /\ ndf = InputTable(<<>>, RawTimeLabel, 0)
    /\ nurl = UrlA
    /\ nprev = None
    /\ napplied = 0

Standardise ==
    /\ napplied < MaxApply
    /\ nprev' = Some(ndf)
    /\ ndf' = standardise_df(ndf, nurl)
    /\ napplied' = napplied + 1
    /\ UNCHANGED <<nurl, fvars, lvars>>

(***************************************************************************)
(* Specifications.                                                         *)
(***************************************************************************)
Init == FetcherInit /\ ListIdle /\ NormIdle
Next == Query \/ ToPandas \/ SetDatasetId
Spec == Init /\ [][Next]_vars

InitList == FetcherInit /\ ListInit /\ NormIdle
NextList == GetIds
SpecList == InitList /\ [][NextList]_vars

InitNorm == FetcherInit /\ ListIdle /\ NormInit
NextNorm == Standardise
SpecNorm == InitNorm /\ [][NextNorm]_vars

(***************************************************************************)
(* Properties.                                                             *)
(***************************************************************************)
\* the id ends in the seven characters d-e-l-a-y-e-d, read off position by position
HasDelayedSuffix(id) ==
    /\ Len(id) >= 7
    /\ id[Len(id) - 6] = "d" /\ id[Len(id) - 5] = "e" /\ id[Len(id) - 4] = "l"
    /\ id[Len(id) - 3] = "a" /\ id[Len(id) - 2] = "y" /\ id[Len(id) - 1] = "e"
    /\ id[Len(id)] = "d"

RECURSIVE ExpectedRows(_)
ExpectedRows(fetched) ==
    IF fetched = <<>>
    THEN <<>>
    ELSE [k \in 1..Head(fetched).n |-> <<Head(fetched).id, k>>]
            \o ExpectedRows(Tail(fetched))

RECURSIVE SumRows(_)
SumRows(fetched) ==
    IF fetched = <<>> THEN 0 ELSE Head(fetched).n + SumRows(Tail(fetched))

\* C1: to_pandas() on a fetcher with no active dataset id (unset or empty) and
\* no catalog raises ValueError from the else branch, issues no fetch, and
\* leaves dataset id, catalog and constraints as they were.
C1_NoIdNoCatalogIsConfigError ==
    [][ (~Truthy(dataset_id) /\ IsNone(datasets) /\ last'.op = "to_pandas")
        => /\ last'.status = "ValueError"
           /\ last'.branch = "error"
           /\ last'.fetched = <<>>
           /\ UNCHANGED <<dataset_id, datasets, constraints>> ]_vars

\* C1 witness: a to_pandas() call has failed with the configuration error
\* after a query() whose search failed left the catalog unset.
C1_Witness ==
    /\ last.op = "to_pandas" /\ last.branch = "error" /\ last.status = "ValueError"
    /\ IsNone(datasets) /\ ~IsNone(constraints)

\* C2: a query(delayed=false) that returns a catalog returns no id ending in
\* "delayed"; a query(delayed=true) that returns a catalog returns every id the
\* search answered with, those ending in "delayed" included, in order.
C2_DelayedFilter ==
    (last.op = "query" /\ last.status = "ok")
    => LET ids == CatalogIds(Val(last.value))
       IN  /\ ~last.arg.delayed
                => /\ \A i \in 1..Len(ids) : ~HasDelayedSuffix(ids[i])
                   /\ \A x \in Range(Val(last.arg.resp)) :
                          ~HasDelayedSuffix(x) => x \in Range(ids)
           /\ last.arg.delayed => ids = Val(last.arg.resp)

\* C2 witness: a query(delayed=false), made after an earlier call on the same
\* fetcher, whose search listed a delayed and a plain id and which returned
\* the plain one.
C2_Witness ==
    /\ last.op = "query" /\ last.status = "ok" /\ ~last.arg.delayed
    /\ Val(last.arg.resp) = <<IdDelayed, IdMid>>
    /\ CatalogIds(Val(last.value)) = <<IdMid>>
    /\ ~IsNone(dataset_id)

\* C3 as claimed: a query() call on a fetcher that holds a catalog returns that
\* catalog unchanged, issues no search and keeps the catalog.
C3_LaterQueryReturnsCatalog ==
    [][ (~IsNone(datasets) /\ last'.op = "query")
        => /\ last'.status = "ok"
           /\ last'.value = datasets
           /\ last'.searches = 0
           /\ datasets' = datasets ]_vars

\* C4 as claimed: for every N >= 0, a multi-dataset to_pandas() none of whose
\* fetches raises returns the per-dataset tables concatenated in catalog
\* order, having fetched each catalog id once in catalog order.
C4_ConcatForEveryN ==
    (last.op = "to_pandas" /\ last.branch = "multi" /\ last.status /= "FetchError")
    => /\ last.status = "ok"
       /\ [i \in 1..Len(last.fetched) |-> last.fetched[i].id]
              = CatalogIds(Val(datasets))
       /\ LET rows == Val(last.value).rows
          IN  /\ Len(rows) = SumRows(last.fetched)
              /\ [i \in 1..Len(rows) |-> <<rows[i].src, rows[i].pos>>]
                     = ExpectedRows(last.fetched)

\* C5: every row of a table to_pandas() returns has a dataset_url, which holds
\* no "?" and is the part before "?" of the download url of the dataset the
\* row was fetched from; hence rows of one dataset agree on it.
C5_DatasetUrlPerRow ==
    (last.op = "to_pandas" /\ last.status = "ok")
    => LET rows == Val(last.value).rows
       IN  /\ DatasetUrlCol \in Range(Val(last.value).columns)
           /\ \A i \in 1..Len(rows) :
                LET full == GetDownloadUrl(DefaultServer, rows[i].src, constraints)
                IN  /\ ~IsNone(rows[i].dataset_url)
                    /\ "?" \notin Range(Val(rows[i].dataset_url))
                    /\ Len(full) > Len(Val(rows[i].dataset_url))
                    /\ SubSeq(full, 1, Len(Val(rows[i].dataset_url)) + 1)
                           = Append(Val(rows[i].dataset_url), "?")
           /\ \A i, j \in 1..Len(rows) :
                rows[i].src = rows[j].src
                    => rows[i].dataset_url = rows[j].dataset_url

\* C5 witness: a multi-dataset to_pandas() returned rows of two datasets.
C5_Witness ==
    /\ last.op = "to_pandas" /\ last.status = "ok" /\ last.branch = "multi"
    /\ \E i, j \in 1..Len(Val(last.value).rows) :
           Val(last.value).rows[i].src /= Val(last.value).rows[j].src

\* C6: get_ids() on the IOOS glider server returns the allDatasets listing
\* with "allDatasets" taken out and the other ids kept in order; on another
\* server it raises ValueError, issues no fetch and stores nothing.
C6_GetIds ==
    (lret.op = "get_ids")
    => IF e_server = <<"https://gliders.ioos.us/erddap">>
       THEN /\ lret.status = "ok"
            /\ AllDatasets \notin Range(Val(lret.value))
            /\ Val(lret.value) = SelectSeq(lret.arg, LAMBDA x : x /= AllDatasets)
            /\ dataset_ids = lret.value
       ELSE /\ lret.status = "ValueError"
            /\ lret.fetches = 0
            /\ IsNone(dataset_ids) /\ IsNone(e_dataset_id)

\* C6 witness: get_ids() returned two ids from a listing that had
\* "allDatasets" between them.
C6_Witness ==
    /\ lret.op = "get_ids" /\ lret.status = "ok"
    /\ lret.arg = <<IdPlain, AllDatasets, IdMid>>
    /\ Val(lret.value) = <<IdPlain, IdMid>>

\* C7: standardise_df applied to its own output with the same url gives the
\* same column names, index label and dataset_url cells as applying it once.
C7_Idempotent ==
    (napplied >= 2)
    => /\ ndf.columns = Val(nprev).columns
       /\ ndf.index_name = Val(nprev).index_name
       /\ [i \in 1..Len(ndf.rows) |-> ndf.rows[i].dataset_url]
              = [i \in 1..Len(Val(nprev).rows) |-> Val(nprev).rows[i].dataset_url]

\* C7 witness: standardise_df was applied twice to a table that came with an
\* upper-case server column, which the first application renamed.
C7_Witness ==
    /\ napplied = 2
    /\ ndf.columns = <<Temperature, DatasetUrlCol>>
    /\ Len(ndf.rows) = 1

\* C8 as claimed: in every catalog a discovering query() returns, delayed or
\* not, each id carries its info-page url.
C8_InfoUrlAttached ==
    (last.op = "query" /\ last.status = "ok")
    => LET cat == Val(last.value)
       IN  \A i \in 1..Len(cat.rows) :
               cat.rows[i].info_url
                   = Some(GetInfoUrl(DefaultServer, cat.rows[i].Dataset_ID))

\* C9: a query() whose catalog search raises an HTTP error ends in an
\* Exception naming the constraints of that call, after one search, with the
\* catalog unset and the constraints those of the failed call; every
\* query() made while the catalog is unset issues a search again.
C9_SearchFailure ==
    [][ /\ (last'.op = "query" /\ IsNone(datasets) /\ IsNone(last'.arg.resp))
            => /\ last'.status = "Exception"
               /\ last'.searches = 1
               /\ IsNone(datasets')
               /\ constraints' = Some(MakeConstraints(last'.arg.bounds))
               /\ last'.named = constraints'
        /\ (IsNone(datasets) /\ last'.op = "query")
            => last'.searches = 1 ]_vars

\* C9 witness: a query() has just failed on an HTTP error of its search.
C9_Witness ==
    /\ last.op = "query" /\ last.status = "Exception" /\ last.searches = 1
    /\ IsNone(datasets)
    /\ constraints = Some(MakeConstraints(last.arg.bounds))

\* C10: a multi-dataset to_pandas() on N >= 1 ids leaves the last catalog id
\* as the active dataset id (the k-th when the k-th fetch raised); the next
\* to_pandas() takes the single-dataset branch, fetches that id alone and
\* returns only its table.
C10_IdLeaksIntoNextCall ==
    [][ /\ (last'.op = "to_pandas" /\ last'.branch = "multi"
              /\ Len(Val(datasets).rows) >= 1)
            => LET ids == CatalogIds(Val(datasets))
               IN  /\ last'.status = "ok" => dataset_id' = Some(ids[Len(ids)])
                   /\ last'.status = "FetchError"
                        => dataset_id' = Some(ids[Len(last'.fetched)])
                   /\ last'.status \in {"ok", "FetchError"}
        /\ (last.op = "to_pandas" /\ last.branch = "multi"
              /\ last.status \in {"ok", "FetchError"} /\ last'.op = "to_pandas")
            => /\ last'.branch = "single"
               /\ Len(last'.fetched) = 1
               /\ last'.fetched[1].id = Val(dataset_id)
               /\ dataset_id' = dataset_id
               /\ last'.status = "ok"
                    => /\ Len(Val(last'.value).rows) = last'.fetched[1].n
                       /\ \A i \in 1..Len(Val(last'.value).rows) :
                              Val(last'.value).rows[i].src = Val(dataset_id) ]_vars

\* C10 witness: with a two-id catalog held, to_pandas() took the single branch
\* on an id only the multi-dataset loop can have made active.
C10_Witness ==
    /\ last.op = "to_pandas" /\ last.branch = "single" /\ last.status = "ok"
    /\ ~IsNone(datasets)
    /\ CatalogIds(Val(datasets)) = <<IdPlain, IdMid>>
    /\ dataset_id = Some(IdMid)

====
